---- MODULE Spec2Model ----
(***************************************************************************)
(* Snapgram: the mutation workflows of src/lib/appwrite/api.ts run against *)
(* a shared remote document store and blob store.  Every remote call is    *)
(* one atomic step of the store; the calls of one invocation happen in     *)
(* program order and the calls of different invocations interleave.        *)
(***************************************************************************)
EXTENDS Integers, Sequences, FiniteSets, TLC

\* ---------------------------------------------------------------- bounds
NumProcs == 2          \* invocations that can be in flight together
MaxBlobs == 2          \* ids ID.unique() hands to storage.createFile
MaxPosts == 1          \* ids ID.unique() hands to created Post documents
MaxUsers == 1          \* ids ID.unique() hands to created User documents
MaxInvocations == 3    \* workflow invocations callers make in one run

Procs   == 1..NumProcs
BlobIds == 1..MaxBlobs
PostIds == 1..MaxPosts
UserIds == 1..MaxUsers

\* ---------------------------------------------------------------- values
\* An absent (undefined) id.  Ids given out by ID.unique() start at 1.
Undefined == 0
\* An absent (undefined) URL.
NoUrl == <<>>
\* storage.getFilePreview(storageId, fileId, ...): the URL names the file.
Preview(fileId) == <<"preview", fileId>>
\* avatars.getInitials(user.name)
Initials == <<"initials", Undefined>>

\* A slot of a collection that holds no document.
NoDoc == [exists |-> FALSE, imageId |-> Undefined, imageUrl |-> NoUrl, tags |-> <<>>]
Doc(imageId, imageUrl, tags) ==
    [exists |-> TRUE, imageId |-> imageId, imageUrl |-> imageUrl, tags |-> tags]

\* The tag strings callers pass: absent, "", and "a, b" (characters as a sequence).
NoTags == [defined |-> FALSE, str |-> <<>>]
Str(s) == [defined |-> TRUE, str |-> s]
TagInputs == {NoTags, Str(<<>>), Str(<<"a", ",", " ", "b">>)}

\* The image references callers pass: none, or the id and preview URL of a blob.
NoRef == [imageId |-> Undefined, imageUrl |-> NoUrl]
ImageRefs == {NoRef} \cup {[imageId |-> b, imageUrl |-> Preview(b)] : b \in BlobIds}
\* ... and for a profile also the initials avatar a new account starts with.
UserImageRefs == ImageRefs \cup {[imageId |-> Undefined, imageUrl |-> Initials]}

\* ---------------------------------------------------------------- tags
\* String.prototype.replace(/ /g, ""): removes every space character.
StripSpaces(s) == SelectSeq(s, LAMBDA c : c # " ")

RECURSIVE FirstComma(_, _)
\* index of the first "," of s at or after i, or 0
FirstComma(s, i) ==
    IF i > Len(s) THEN 0
    ELSE IF s[i] = "," THEN i
    ELSE FirstComma(s, i + 1)

RECURSIVE SplitComma(_)
\* String.prototype.split(","): "" splits into [""]
SplitComma(s) ==
    LET i == FirstComma(s, 1) IN
    IF i = 0 THEN <<s>>
    ELSE <<SubSeq(s, 1, i - 1)>> \o SplitComma(SubSeq(s, i + 1, Len(s)))

\* post.tags?.replace(/ /g, "").split(",") || []
\* (an array is truthy, so [] is used only when post.tags is absent)
NormalizeTags(t) ==
    IF ~t.defined THEN <<>> ELSE SplitComma(StripSpaces(t.str))

\* ---------------------------------------------------------------- state
VARIABLES
    posts,      \* Post collection: PostIds -> document or NoDoc
    users,      \* User collection: UserIds -> document or NoDoc
    blobs,      \* ids of the files the blob store holds
    nextBlob,   \* next id ID.unique() gives to a file
    nextPost,   \* next id ID.unique() gives to a Post
    nextUser,   \* next id ID.unique() gives to a User
    inv,        \* Procs -> the invocation the process is running
    started,    \* number of workflow invocations made so far
    honest      \* every update/delete so far passed the document's own image reference

vars == <<posts, users, blobs, nextBlob, nextPost, nextUser, inv, started, honest>>

\* A process that runs no workflow.
Idle ==
    [op |-> "none", pc |-> "idle", docId |-> Undefined,
     imageId |-> Undefined, imageUrl |-> NoUrl, hasFile |-> FALSE, tags |-> NoTags,
     newId |-> Undefined, res |-> "none", calls |-> <<>>,
     preRef |-> NoRef, preBlobs |-> {}, solo |-> TRUE]

Init ==
    /\ posts = [i \in PostIds |-> NoDoc]
    /\ users = [i \in UserIds |-> NoDoc]
    /\ blobs = {}
    /\ nextBlob = 1
    /\ nextPost = 1
    /\ nextUser = 1
    /\ inv = [p \in Procs |-> Idle]
    /\ started = 0
    /\ honest = TRUE

\* Blob ids that were uploaded and have since been deleted.
Deleted == (1..(nextBlob - 1)) \ blobs

\* The remote call log of an invocation: <<call, id argument, outcome>>.
Call(name, arg, outcome) == <<name, arg, outcome>>

\* p moves to record r; when the step changed the store, every other
\* invocation in flight has no longer run alone.
Step(p, r, changed) ==
    inv' = [q \in Procs |->
              IF q = p THEN r
              ELSE IF changed /\ inv[q].pc # "idle"
                   THEN [inv[q] EXCEPT !.solo = FALSE]
                   ELSE inv[q]]

\* The workflow's catch block: console.log(error), fall off the end.
Caught(r) == [r EXCEPT !.pc = "done", !.res = "undefined"]
\* return <payload>
Returned(r) == [r EXCEPT !.pc = "done", !.res = "payload"]

\* An async function hands its outcome to the caller as soon as its last
\* await resolves: no remote call of another invocation is served in between.
NoReturnPending == \A q \in Procs : inv[q].pc # "done"

\* A caller invokes a workflow on an idle process.
Invoke(p) ==
    /\ NoReturnPending
    /\ inv[p].pc = "idle"
    /\ started < MaxInvocations
    /\ started' = started + 1

Logged(r, name, arg, outcome) ==
    [r EXCEPT !.calls = Append(@, Call(name, arg, outcome))]

PostAt(id) == IF id \in PostIds THEN posts[id] ELSE NoDoc
UserAt(id) == IF id \in UserIds THEN users[id] ELSE NoDoc
RefOf(d) == [imageId |-> d.imageId, imageUrl |-> d.imageUrl]


\* ---------------------------------------------------------------- invocations
\* The outcomes of a call on the document store or the account service:
\* it resolves to a value, resolves to a falsy value, or rejects.
DocOutcomes == {"ok", "falsy", "threw"}

\* createPost(post): post.file[0] is uploaded first.  post.tags is first read
\* when the document is written, so the model draws it at that step.
CreatePost(p) ==
    /\ Invoke(p)
    /\ Step(p, [Idle EXCEPT !.op = "createPost", !.pc = "upload", !.hasFile = TRUE,
                            !.preBlobs = blobs], FALSE)
    /\ UNCHANGED <<posts, users, blobs, nextBlob, nextPost, nextUser, honest>>

\* const hasFileToUpdate = post.file.length > 0;
\* let image = { imageUrl: post.imageUrl, imageId: post.imageId }
UpdatePostFirstStep(hasFileToUpdate) == IF hasFileToUpdate THEN "upload" ELSE "persist"

UpdatePost(p) ==
    /\ Invoke(p)
    /\ \E id \in PostIds, ref \in ImageRefs, f \in BOOLEAN :
         /\ Step(p, [Idle EXCEPT !.op = "updatePost", !.pc = UpdatePostFirstStep(f),
                                 !.docId = id, !.imageId = ref.imageId,
                                 !.imageUrl = ref.imageUrl, !.hasFile = f,
                                 !.preRef = RefOf(posts[id]), !.preBlobs = blobs], FALSE)
         /\ honest' = (honest /\ posts[id].exists /\ ref = RefOf(posts[id]))
    /\ UNCHANGED <<posts, users, blobs, nextBlob, nextPost, nextUser>>

UpdateUser(p) ==
    /\ Invoke(p)
    /\ \E id \in UserIds, ref \in UserImageRefs, f \in BOOLEAN :
         /\ Step(p, [Idle EXCEPT !.op = "updateUser", !.pc = UpdatePostFirstStep(f),
                                 !.docId = id, !.imageId = ref.imageId,
                                 !.imageUrl = ref.imageUrl, !.hasFile = f,
                                 !.preRef = RefOf(users[id]), !.preBlobs = blobs], FALSE)
         /\ honest' = (honest /\ users[id].exists /\ ref = RefOf(users[id]))
    /\ UNCHANGED <<posts, users, blobs, nextBlob, nextPost, nextUser>>

\* A faulty guard: only postId is tested.
DeletePostNoopPostIdOnly(postId, imageId) == postId = Undefined

\* if (!postId || !imageId) return;
DeletePostNoop(postId, imageId) == postId = Undefined \/ imageId = Undefined

DeletePost(p) ==
    /\ Invoke(p)
    /\ \E id \in PostIds \cup {Undefined}, img \in BlobIds \cup {Undefined} :
         LET r == [Idle EXCEPT !.op = "deletePost", !.docId = id, !.imageId = img,
                               !.preRef = RefOf(PostAt(id)), !.preBlobs = blobs]
         IN /\ Step(p, IF DeletePostNoop(id, img)
                       THEN [r EXCEPT !.pc = "done", !.res = "undefined"]
                       ELSE [r EXCEPT !.pc = "delDoc"], FALSE)
            /\ honest' = (honest /\ (id # Undefined /\ img # Undefined
                                       => posts[id].exists /\ img = posts[id].imageId))
    /\ UNCHANGED <<posts, users, blobs, nextBlob, nextPost, nextUser>>

\* if (!postId) throw Error;   -- before the try block
GetPostByIdGuard(postId) == IF postId = Undefined THEN "raised" ELSE "none"

GetPostById(p) ==
    /\ Invoke(p)
    /\ \E id \in PostIds \cup {Undefined} :
         LET r == [Idle EXCEPT !.op = "getPostById", !.docId = id, !.preBlobs = blobs]
         IN Step(p, IF GetPostByIdGuard(id) = "raised"
                    THEN [r EXCEPT !.pc = "done", !.res = "raised"]
                    ELSE [r EXCEPT !.pc = "get"], FALSE)
    /\ UNCHANGED <<posts, users, blobs, nextBlob, nextPost, nextUser, honest>>

CreateUserAccount(p) ==
    /\ Invoke(p)
    /\ Step(p, [Idle EXCEPT !.op = "createUserAccount", !.pc = "acct",
                            !.preBlobs = blobs], FALSE)
    /\ UNCHANGED <<posts, users, blobs, nextBlob, nextPost, nextUser, honest>>

\* The caller has the outcome; the process is free for the next invocation.
Return(p) ==
    /\ inv[p].pc = "done"
    /\ Step(p, Idle, FALSE)
    /\ UNCHANGED <<posts, users, blobs, nextBlob, nextPost, nextUser, started, honest>>


\* ---------------------------------------------------------------- remote steps
\* A faulty caller: the result of uploadFile is not tested.
AfterUploadUnchecked(uploaded) == "preview"

\* const uploadedFile = await uploadFile(post.file[0]);
\* if (!uploadedFile) throw Error;   -- caught by the workflow's catch block
AfterUpload(uploaded) == IF uploaded THEN "preview" ELSE "caught"

\* uploadFile(file): storage.createFile inside try/catch; a rejection is
\* logged and uploadFile returns undefined.  The caller: if (!uploadedFile) throw Error.
UploadFile(p) ==
    /\ NoReturnPending
    /\ inv[p].pc = "upload"
    /\ \/ /\ nextBlob <= MaxBlobs
          /\ blobs' = blobs \cup {nextBlob}
          /\ nextBlob' = nextBlob + 1
          /\ Step(p, [Logged(inv[p], "createFile", nextBlob, "ok")
                        EXCEPT !.pc = AfterUpload(TRUE), !.newId = nextBlob], TRUE)
       \/ /\ UNCHANGED <<blobs, nextBlob>>
          /\ LET r == Logged(inv[p], "createFile", Undefined, "failed")
             IN Step(p, IF AfterUpload(FALSE) = "caught" THEN Caught(r)
                        ELSE [r EXCEPT !.pc = AfterUpload(FALSE)], FALSE)
    /\ UNCHANGED <<posts, users, nextPost, nextUser, started, honest>>

\* getFilePreview(fileId) inside try/catch returns the URL or undefined.
\* The caller: if (!fileUrl) { await deleteFile(uploadedFile.$id); throw Error; }
GetFilePreview(p) ==
    /\ NoReturnPending
    /\ inv[p].pc = "preview"
    /\ \/ Step(p, [Logged(inv[p], "getFilePreview", inv[p].newId, "ok")
                     EXCEPT !.pc = "persist"], FALSE)
       \/ Step(p, [Logged(inv[p], "getFilePreview", inv[p].newId, "failed")
                     EXCEPT !.pc = "delNew"], FALSE)
    /\ UNCHANGED <<posts, users, blobs, nextBlob, nextPost, nextUser, started, honest>>

\* A faulty deleteFile: the rejection of storage.deleteFile escapes to the caller.
DeleteFileRethrows(remoteOk) == IF remoteOk THEN "ok" ELSE "raised"

\* deleteFile(fileId): try { await storage.deleteFile(...); return {status: "ok"} }
\* catch (error) { console.log(error) }  -- what deleteFile hands its caller
DeleteFileReturns(remoteOk) == IF remoteOk THEN "ok" ELSE "undefined"

\* await deleteFile(fileId) inside a workflow's try block, followed by
\* `throw Error` (normal = "undefined") or `return <payload>` (normal = "payload").
DeleteFileStep(p, fileId, normal) ==
    \E ok \in BOOLEAN :
      /\ ok => fileId \in blobs
      /\ blobs' = IF ok THEN blobs \ {fileId} ELSE blobs
      /\ LET r == Logged(inv[p], "deleteFile", fileId, IF ok THEN "ok" ELSE "failed")
         IN Step(p, IF DeleteFileReturns(ok) = "raised" THEN Caught(r)
                    ELSE [r EXCEPT !.pc = "done", !.res = normal], ok)

\* The compensating deletion of the blob this invocation uploaded, then throw Error.
DeleteNewFile(p) ==
    /\ NoReturnPending
    /\ inv[p].pc = "delNew"
    /\ DeleteFileStep(p, inv[p].newId, "undefined")
    /\ UNCHANGED <<posts, users, nextBlob, nextPost, nextUser, started, honest>>

\* createPost: after a falsy createDocument the blob is deleted; a rejected
\* createDocument goes straight to the catch block.
CreatePostAfterPersist(outcome) ==
    IF outcome = "ok" THEN "done" ELSE IF outcome = "falsy" THEN "delNew" ELSE "caught"

\* databases.createDocument(postCollectionId, ID.unique(), {creator, caption,
\*   imageUrl: fileUrl, imageId: uploadedFile.$id, location, tags})
CreateDocument(p) ==
    /\ NoReturnPending
    /\ inv[p].pc = "persist"
    /\ inv[p].op = "createPost"
    /\ \E outcome \in DocOutcomes, t \in TagInputs :
         LET r    == Logged([inv[p] EXCEPT !.tags = t], "createDocument", nextPost, outcome)
             next == CreatePostAfterPersist(outcome)
         IN /\ outcome = "ok" => nextPost <= MaxPosts
            /\ posts' = IF outcome = "ok"
                        THEN [posts EXCEPT ![nextPost] =
                                Doc(r.newId, Preview(r.newId), NormalizeTags(r.tags))]
                        ELSE posts
            /\ nextPost' = IF outcome = "ok" THEN nextPost + 1 ELSE nextPost
            /\ Step(p, IF next = "done" THEN Returned([r EXCEPT !.docId = nextPost])
                       ELSE IF next = "delNew" THEN [r EXCEPT !.pc = "delNew"]
                       ELSE Caught(r), outcome = "ok")
    /\ UNCHANGED <<users, blobs, nextBlob, nextUser, started, honest>>

\* The image reference the update writes: the uploaded file's when there is
\* one (image = {...image, imageUrl: fileUrl, imageId: uploadedFile.$id}),
\* else the reference the caller passed.
ImageToWrite(r) ==
    IF r.hasFile THEN [imageId |-> r.newId, imageUrl |-> Preview(r.newId)]
    ELSE [imageId |-> r.imageId, imageUrl |-> r.imageUrl]

\* updateDocument changes the attributes of the payload; an undefined
\* attribute is not part of the payload and keeps its stored value.
Written(old, image, tags) ==
    Doc(IF image.imageId = Undefined THEN old.imageId ELSE image.imageId,
        IF image.imageUrl = NoUrl THEN old.imageUrl ELSE image.imageUrl,
        tags)

\* updatePost: if (hasFileToUpdate) await deleteFile(post.imageId)
\* updateUser: if (user.imageId && hasFileToUpdate) await deleteFile(user.imageId)
DeletesOld(r) ==
    IF r.op = "updatePost" THEN r.hasFile
    ELSE r.imageId # Undefined /\ r.hasFile

\* After updateDocument: a falsy result deletes the new blob when there is
\* one and throws; a rejection goes straight to the catch block.
UpdateAfterPersist(r, outcome) ==
    IF outcome = "ok" THEN (IF DeletesOld(r) THEN "delOld" ELSE "done")
    ELSE IF outcome = "falsy" THEN (IF r.hasFile THEN "delNew" ELSE "caught")
    ELSE "caught"

\* databases.updateDocument(collection, id, {..., imageUrl: image.imageUrl,
\*   imageId: image.imageId, ...})
UpdateDocument(p) ==
    /\ NoReturnPending
    /\ inv[p].pc = "persist"
    /\ inv[p].op \in {"updatePost", "updateUser"}
    /\ \E outcome \in DocOutcomes, t \in TagInputs :
         LET r    == Logged([inv[p] EXCEPT !.tags = IF inv[p].op = "updatePost" THEN t ELSE NoTags],
                            "updateDocument", inv[p].docId, outcome)
             next == UpdateAfterPersist(r, outcome)
             old  == IF r.op = "updatePost" THEN posts[r.docId] ELSE users[r.docId]
             new  == Written(old, ImageToWrite(r),
                             IF r.op = "updatePost" THEN NormalizeTags(r.tags) ELSE <<>>)
         IN /\ outcome = "ok" => old.exists
            /\ posts' = IF outcome = "ok" /\ r.op = "updatePost"
                        THEN [posts EXCEPT ![r.docId] = new] ELSE posts
            /\ users' = IF outcome = "ok" /\ r.op = "updateUser"
                        THEN [users EXCEPT ![r.docId] = new] ELSE users
            /\ Step(p, IF next = "done" THEN Returned(r)
                       ELSE IF next = "caught" THEN Caught(r)
                       ELSE [r EXCEPT !.pc = next], outcome = "ok")
    /\ UNCHANGED <<blobs, nextBlob, nextPost, nextUser, started, honest>>

\* After a successful update: await deleteFile(post.imageId); return updatedPost
DeleteOldFile(p) ==
    /\ NoReturnPending
    /\ inv[p].pc = "delOld"
    /\ DeleteFileStep(p, inv[p].imageId, "payload")
    /\ UNCHANGED <<posts, users, nextBlob, nextPost, nextUser, started, honest>>

\* A faulty deletePost: the blob is deleted whatever deleteDocument answered.
DeletePostAfterDocAlways(outcome) == "delBlob"

\* deletePost: const statusCode = await databases.deleteDocument(...);
\* if (!statusCode) throw Error;  then await deleteFile(imageId)
DeletePostAfterDoc(outcome) == IF outcome = "ok" THEN "delBlob" ELSE "caught"

DeleteDocument(p) ==
    /\ NoReturnPending
    /\ inv[p].pc = "delDoc"
    /\ \E outcome \in DocOutcomes :
         LET r == Logged(inv[p], "deleteDocument", inv[p].docId, outcome)
         IN /\ outcome = "ok" => posts[r.docId].exists
            /\ posts' = IF outcome = "ok" THEN [posts EXCEPT ![r.docId] = NoDoc] ELSE posts
            /\ Step(p, IF DeletePostAfterDoc(outcome) = "delBlob"
                       THEN [r EXCEPT !.pc = "delBlob"] ELSE Caught(r), outcome = "ok")
    /\ UNCHANGED <<users, blobs, nextBlob, nextPost, nextUser, started, honest>>

\* deletePost: await deleteFile(imageId); return { status: "Ok" }
DeletePostFile(p) ==
    /\ NoReturnPending
    /\ inv[p].pc = "delBlob"
    /\ DeleteFileStep(p, inv[p].imageId, "payload")
    /\ UNCHANGED <<posts, users, nextBlob, nextPost, nextUser, started, honest>>

\* getPostById: const post = await databases.getDocument(...);
\* if (!post) throw Error; return post   -- inside try/catch
GetDocument(p) ==
    /\ NoReturnPending
    /\ inv[p].pc = "get"
    /\ \E outcome \in DocOutcomes :
         LET r == Logged(inv[p], "getDocument", inv[p].docId, outcome)
         IN /\ outcome = "ok" => posts[r.docId].exists
            /\ Step(p, IF outcome = "ok" THEN Returned(r) ELSE Caught(r), FALSE)
    /\ UNCHANGED <<posts, users, blobs, nextBlob, nextPost, nextUser, started, honest>>

\* createUserAccount: const newAccount = await account.create(...);
\* if (!newAccount) throw Error; ... catch (error) { console.log(error); return error; }
AccountCreate(p) ==
    /\ NoReturnPending
    /\ inv[p].pc = "acct"
    /\ \E outcome \in DocOutcomes :
         LET r == Logged(inv[p], "accountCreate", Undefined, outcome)
         IN Step(p, IF outcome = "ok" THEN [r EXCEPT !.pc = "saveUser"]
                    ELSE [r EXCEPT !.pc = "done", !.res = "error"], FALSE)
    /\ UNCHANGED <<posts, users, blobs, nextBlob, nextPost, nextUser, started, honest>>

\* saveUserToDB: databases.createDocument(userCollectionId, ID.unique(), user)
\* inside try/catch; a rejection is logged and undefined is returned, a falsy
\* result is returned as it is; createUserAccount returns either as newUser.
SaveUserToDB(p) ==
    /\ NoReturnPending
    /\ inv[p].pc = "saveUser"
    /\ \E outcome \in DocOutcomes :
         LET r == Logged(inv[p], "createDocument", nextUser, outcome)
         IN /\ outcome = "ok" => nextUser <= MaxUsers
            /\ users' = IF outcome = "ok"
                        THEN [users EXCEPT ![nextUser] = Doc(Undefined, Initials, <<>>)]
                        ELSE users
            /\ nextUser' = IF outcome = "ok" THEN nextUser + 1 ELSE nextUser
            /\ Step(p, IF outcome = "ok" THEN Returned([r EXCEPT !.docId = nextUser])
                       ELSE Caught(r), outcome = "ok")
    /\ UNCHANGED <<posts, blobs, nextBlob, nextPost, started, honest>>

Next ==
    \E p \in Procs :
        \/ CreatePost(p)
        \/ UpdatePost(p)
        \/ UpdateUser(p)
        \/ DeletePost(p)
        \/ GetPostById(p)
        \/ CreateUserAccount(p)
        \/ UploadFile(p)
        \/ GetFilePreview(p)
        \/ CreateDocument(p)
        \/ UpdateDocument(p)
        \/ DeleteNewFile(p)
        \/ DeleteOldFile(p)
        \/ DeleteDocument(p)
        \/ DeletePostFile(p)
        \/ GetDocument(p)
        \/ AccountCreate(p)
        \/ SaveUserToDB(p)
        \/ Return(p)

Spec == Init /\ [][Next]_vars

\* ---------------------------------------------------------------- properties
Done(p) == inv[p].pc = "done"
IsUpdate(r) == r.op \in {"updatePost", "updateUser"}
\* the document an invocation is about, as stored now
DocOf(r) == IF r.op = "updateUser" THEN UserAt(r.docId) ELSE PostAt(r.docId)
HasCall(r, name, outcomes) ==
    \E i \in 1..Len(r.calls) : r.calls[i][1] = name /\ r.calls[i][3] \in outcomes
Referenced(b) ==
    \/ \E i \in PostIds : posts[i].exists /\ posts[i].imageId = b
    \/ \E i \in UserIds : users[i].exists /\ users[i].imageId = b

\* C1: when createPost returns a failure, the blob it uploaded no longer exists.
C1_NoBlobLeftOnCreateFailure ==
    \A p \in Procs :
        (Done(p) /\ inv[p].op = "createPost" /\ inv[p].res # "payload"
           /\ inv[p].newId # Undefined)
        => inv[p].newId \notin blobs

\* C2: when updatePost/updateUser with a new image returns after a failed
\* document update, the new blob is deleted, the old blob is not, and the
\* document's imageId is what it was before the call.
C2_FailedUpdateRollsBack ==
    \A p \in Procs :
        (Done(p) /\ IsUpdate(inv[p]) /\ inv[p].hasFile /\ inv[p].solo
           /\ HasCall(inv[p], "updateDocument", {"falsy", "threw"}))
        => /\ inv[p].newId \notin blobs
           /\ (inv[p].preRef.imageId \in inv[p].preBlobs
                 => inv[p].preRef.imageId \in blobs)
           /\ DocOf(inv[p]).imageId = inv[p].preRef.imageId

\* C3: when updatePost/updateUser with a new image returns after a successful
\* document update, the blob the document named before the call is deleted
\* and no document references it.
C3_OldBlobDeletedOnSuccess ==
    \A p \in Procs :
        (Done(p) /\ IsUpdate(inv[p]) /\ inv[p].hasFile /\ inv[p].solo
           /\ HasCall(inv[p], "updateDocument", {"ok"})
           /\ inv[p].preRef.imageId # Undefined)
        => /\ inv[p].preRef.imageId \notin blobs
           /\ ~Referenced(inv[p].preRef.imageId)

\* C4: updatePost/updateUser without a new image leaves the stored image
\* reference as it was, whatever imageUrl/imageId the caller passed, and
\* uploads and deletes no blob.
C4_NoFileKeepsImageReference ==
    \A p \in Procs :
        (Done(p) /\ IsUpdate(inv[p]) /\ ~inv[p].hasFile /\ inv[p].solo)
        => /\ RefOf(DocOf(inv[p])) = inv[p].preRef
           /\ blobs = inv[p].preBlobs
           /\ ~HasCall(inv[p], "createFile", {"ok", "failed"})
           /\ ~HasCall(inv[p], "deleteFile", {"ok", "failed"})

\* C5: under every interleaving of createPost, updatePost and deletePost
\* invocations, no existing Post names a deleted blob.  Stated for callers
\* that pass the document's own image reference, the case most favourable
\* to the claim.
C5_NoPostNamesDeletedBlob ==
    honest => \A i \in PostIds : posts[i].exists => posts[i].imageId \notin Deleted

\* C6: deletePost issues the blob deletion only after its document deletion
\* succeeded, so the blob is never deleted by deletePost while the Post
\* exists; after a failed document deletion it issues no blob deletion, the
\* blob is still there and the outcome is the failure outcome.
C6_DeletePostDocumentFirst ==
    \A p \in Procs :
        inv[p].op = "deletePost" =>
          /\ (inv[p].pc = "delBlob" \/ HasCall(inv[p], "deleteFile", {"ok", "failed"}))
               => /\ inv[p].calls[1] = Call("deleteDocument", inv[p].docId, "ok")
                  /\ ~PostAt(inv[p].docId).exists
          /\ (Done(p) /\ HasCall(inv[p], "deleteDocument", {"falsy", "threw"}))
               => /\ Len(inv[p].calls) = 1
                  /\ inv[p].res = "undefined"
                  /\ (inv[p].solo /\ inv[p].imageId \in inv[p].preBlobs
                        => inv[p].imageId \in blobs)

C6_Witness ==
    \E p \in Procs :
        /\ Done(p) /\ inv[p].op = "deletePost"
        /\ HasCall(inv[p], "deleteDocument", {"falsy", "threw"})
        /\ PostAt(inv[p].docId).exists
        /\ inv[p].imageId = PostAt(inv[p].docId).imageId
        /\ inv[p].imageId \in blobs

\* C7: deletePost with postId or imageId absent returns at once: no remote
\* call, no error raised, document store and blob store unchanged.
C7_DeletePostAbsentIsNoop ==
    [][\A p \in Procs :
          (inv[p].pc = "idle" /\ inv'[p].op = "deletePost"
             /\ (inv'[p].docId = Undefined \/ inv'[p].imageId = Undefined))
          => /\ inv'[p].pc = "done"
             /\ inv'[p].res = "undefined"
             /\ inv'[p].calls = <<>>
             /\ UNCHANGED <<posts, users, blobs, nextBlob, nextPost, nextUser>>]_vars

C7_Witness ==
    \E p \in Procs :
        /\ Done(p) /\ inv[p].op = "deletePost"
        /\ inv[p].docId # Undefined /\ inv[p].imageId = Undefined
        /\ PostAt(inv[p].docId).exists
        /\ inv[p].calls = <<>>

\* The normalization C8 describes: strip all whitespace, split on comma,
\* empty input gives the empty sequence.
StripWhitespace(s) == SelectSeq(s, LAMBDA c : c \notin {" ", "\t", "\n"})
ExpectedTags(t) ==
    IF ~t.defined \/ StripWhitespace(t.str) = <<>> THEN <<>>
    ELSE SplitComma(StripWhitespace(t.str))

\* C8: the tags createPost and updatePost store are the tag input with all
\* whitespace stripped, split on comma, and the empty sequence for an empty
\* or absent input.
C8_TagsNormalized ==
    \A p \in Procs :
        (Done(p) /\ inv[p].op \in {"createPost", "updatePost"}
           /\ inv[p].res = "payload" /\ (inv[p].op = "createPost" \/ inv[p].solo))
        => PostAt(inv[p].docId).tags = ExpectedTags(inv[p].tags)

\* C9: no workflow invocation ends by raising an error to its caller.
C9_NoWorkflowRaises ==
    \A p \in Procs : Done(p) => inv[p].res # "raised"

\* C10: a blob deletion, failed or not, is the last call of its workflow, the
\* workflow returns right after it, and the outcome is the one the document
\* step decided: success after a successful write or delete, failure otherwise.
C10_BlobDeletionNeverChangesOutcome ==
    \A p \in Procs :
        \A i \in 1..Len(inv[p].calls) :
            inv[p].calls[i][1] = "deleteFile" =>
              /\ i = Len(inv[p].calls)
              /\ Done(p)
              /\ inv[p].res =
                   IF \/ HasCall(inv[p], "createDocument", {"ok"})
                      \/ HasCall(inv[p], "updateDocument", {"ok"})
                      \/ HasCall(inv[p], "deleteDocument", {"ok"})
                   THEN "payload" ELSE "undefined"

C10_Witness ==
    \E p \in Procs :
        /\ Done(p) /\ IsUpdate(inv[p])
        /\ HasCall(inv[p], "updateDocument", {"ok"})
        /\ HasCall(inv[p], "deleteFile", {"failed"})
        /\ inv[p].imageId \in blobs
        /\ inv[p].res = "payload"

\* C11: in createPost, and in updatePost and updateUser with a new image, a
\* failed blob upload is the only remote call of the invocation: no preview,
\* no document create/update, no blob deletion follows, the workflow returns
\* the failure outcome, and document store and blob store are as they were.
C11_AfterFailedUpload(r) ==
    /\ r.calls = <<Call("createFile", Undefined, "failed")>>
    /\ r.pc = "done"
    /\ r.res = "undefined"
    /\ r.newId = Undefined

C11_UploadFailureStopsWorkflow ==
    /\ [](\A p \in Procs :
            HasCall(inv[p], "createFile", {"failed"})
            => /\ C11_AfterFailedUpload(inv[p])
               /\ inv[p].solo => /\ blobs = inv[p].preBlobs
                                 /\ IsUpdate(inv[p]) => RefOf(DocOf(inv[p])) = inv[p].preRef)
    /\ [][\A p \in Procs :
            (inv[p].pc = "upload" /\ HasCall(inv'[p], "createFile", {"failed"}))
            => /\ C11_AfterFailedUpload(inv'[p])
               /\ UNCHANGED <<posts, users, blobs, nextBlob, nextPost, nextUser>>]_vars

C11_Witness ==
    \E p \in Procs :
        /\ Done(p) /\ inv[p].op = "updatePost" /\ inv[p].hasFile
        /\ HasCall(inv[p], "createFile", {"failed"})
        /\ PostAt(inv[p].docId).exists
        /\ PostAt(inv[p].docId).imageId \in blobs
        /\ nextBlob <= MaxBlobs

====
